---- MODULE Spec2Model ----
(***************************************************************************)
(* A model of rust-igd: the streaming control-URL extractor                *)
(* (search.rs, parse_control_url), the discovery reply parser (search.rs,  *)
(* parse_result), the discovery future chain with its timeout (search.rs,  *)
(* search_gateway_from_timeout) and the control operations of a Gateway    *)
(* (gateway.rs, errors.rs).                                                *)
(*                                                                         *)
(* The module holds these specifications over one set of variables:        *)
(*   SpecXml    parse_control_url, one action per iteration of its loop    *)
(*   SpecLoc    parse_result applied to bounded reply texts                *)
(*   SpecSearch search_gateway_from_timeout, one action per stage          *)
(*   SpecOps    the control operations and their error translation         *)
(*   SpecConc   several calls on one Gateway value, interleaved            *)
(*   SpecSoap   soap.rs, send_async, and its error conversion              *)
(*   SpecUri    send_async next to the discovery chain: url parsing        *)
(*   SpecCancel the discovery chain and the release of its future          *)
(* Each specification leaves the variables of the others untouched.        *)
(***************************************************************************)
EXTENDS Integers, Sequences, FiniteSets, TLC

VARIABLES
    doc,        \* parse_control_url: the events the EventReader will yield
    pos,        \* parse_control_url: number of events consumed so far
    chain,      \* parse_control_url: `chain`, the stack of open element names
    service,    \* parse_control_url: `service`, the scratch record
    xresult,    \* parse_control_url: the value returned, kind "none" while running
    text,       \* parse_result: the reply text, a sequence of characters
    hdr,        \* parse_result: the parts the reply text was written from
    lresult,    \* parse_result: the value returned, kind "pending" before the call
    spc,        \* discovery: the stage the future chain is in
    timeout,    \* discovery: the caller's timeout, in ticks of the timer
    now,        \* discovery: ticks since the call, counted up to the timeout
    sock,       \* discovery: the UDP socket, "none", "open" or "closed"
    sent,       \* discovery: number of M-SEARCH datagrams sent
    reply,      \* discovery: what recv_dgram completed with
    location,   \* discovery: the value of parse_result for the reply
    body,       \* discovery: what the HTTP GET completed with
    gets,       \* discovery: number of HTTP GET requests issued
    inner,      \* discovery: the result of the future inside .timeout()
    sresult,    \* discovery: the result the caller gets
    ocall,      \* control: the operation called and its arguments
    opc,        \* control: "idle", "sent" (awaiting the gateway) or "done"
    requests,   \* control: number of SOAP requests the call has sent
    response,   \* control: what the SOAP request completed with
    oresult,    \* control: the value the operation returns
    ipresult,   \* control: get_any_address, the Result of its get_external_ip
    gw,         \* concurrent calls: the Gateway value the calls are made on
    tasks,      \* concurrent calls: the state of each call
    conns,      \* concurrent calls: number of reactors and HTTP clients built
    sst,        \* send_async: "idle", "sent" (request under way) or "done"
    surl,       \* send_async: the url argument
    sanswer,    \* send_async: what the HTTP exchange completed with
    posts,      \* send_async: number of HTTP requests handed to the client
    soapres,    \* send_async: the value the future resolves to
    rqerr       \* send_async: the error after conversion to RequestError

xmlVars == <<doc, pos, chain, service, xresult>>

locVars == <<text, hdr, lresult>>

searchVars == <<spc, timeout, now, sock, sent, reply, location, body, gets, inner, sresult>>

opsVars == <<ocall, opc, requests, response, oresult, ipresult>>

concVars == <<gw, tasks, conns>>

soapVars == <<sst, surl, sanswer, posts, soapres, rqerr>>

vars == <<xmlVars, locVars, searchVars, opsVars, concVars, soapVars>>

(***************************************************************************)
(* Bounds of the model.                                                    *)
(***************************************************************************)
MaxItems == 2       \* children of the service element under study
MaxSiblings == 1    \* plain services that follow it in the same serviceList
MaxLines == 2       \* lines of a discovery reply
MaxTimeout == 2     \* the longest timeout of a discovery call, in ticks
MaxCalls == 2       \* calls that run at the same time on one Gateway

(***************************************************************************)
(* The XML events of xml-rs that parse_control_url tells apart.            *)
(***************************************************************************)
StartEv(n) == [t |-> "StartElement", v |-> n]
EndEv(n) == [t |-> "EndElement", v |-> n]
CharsEv(s) == [t |-> "Characters", v |-> s]
OtherEv == [t |-> "Other", v |-> ""]
ErrorEv == [t |-> "Error", v |-> ""]

WANIP == "urn:schemas-upnp-org:service:WANIPConnection:1"
WANPPP == "urn:schemas-upnp-org:service:WANPPPConnection:1"

RECURSIVE Flat(_)
Flat(ss) == IF ss = <<>> THEN <<>> ELSE Head(ss) \o Flat(Tail(ss))

SeqsUpTo(S, n) == UNION {[1..k -> S] : k \in 0..n}

None == [kind |-> "none", val |-> ""]
Ok(v) == [kind |-> "Ok", val |-> v]
Err(e) == [kind |-> "Err", val |-> e]

(***************************************************************************)
(* Values of the discovery call, search.rs 53-81.                          *)
(***************************************************************************)
NoGateway == [ip |-> <<>>, port |-> 0, control_url |-> ""]

\* Gateway::new(location.0, control_url)
Gateway(ip, port, url) == [ip |-> ip, port |-> port, control_url |-> url]

NoResult == [kind |-> "none", err |-> "", gw |-> NoGateway]
Found(g) == [kind |-> "Ok", err |-> "", gw |-> g]
Failed(e) == [kind |-> "Err", err |-> e, gw |-> NoGateway]
\* the unwraps of parse_result abort the call: nothing is returned
Aborted == [kind |-> "panic", err |-> "", gw |-> NoGateway]

NoDatagram == [kind |-> "none", text |-> <<>>]
NoBody == [kind |-> "none", events |-> <<>>]

(***************************************************************************)
(* parse_control_url, search.rs 83-148.  The parser state is the record    *)
(* [chain, service, result]; each operator is one arm of the match.        *)
(***************************************************************************)
TailIs(c, pat) ==
    /\ Len(c) >= Len(pat)
    /\ SubSeq(c, Len(c) - Len(pat) + 1, Len(c)) = pat

EmptyService == [service_type |-> "", control_url |-> ""]

ParserInit == [chain |-> <<>>, service |-> EmptyService, result |-> None]

\* a start tag that resets nothing
OnStartElementNoClear(p, name) == [p EXCEPT !.chain = Append(p.chain, name)]

OnStartElement(p, name) ==
    LET c == Append(p.chain, name) IN
    IF Len(c) >= 3 /\ TailIs(c, <<"device", "serviceList", "service">>)
    THEN [p EXCEPT !.chain = c, !.service = EmptyService]
    ELSE [p EXCEPT !.chain = c]

\* the return condition without the test of control_url.len() != 0
ServiceMatchesAnyUrl(s) == s.service_type = WANIP \/ s.service_type = WANPPP

ServiceMatches(s) ==
    /\ (WANIP = s.service_type \/ WANPPP = s.service_type)
    /\ Len(s.control_url) # 0

OnEndElement(p) ==
    LET top == IF Len(p.chain) > 0 THEN p.chain[Len(p.chain)] ELSE ""
        c == IF Len(p.chain) > 0 THEN SubSeq(p.chain, 1, Len(p.chain) - 1) ELSE <<>>
    IN  IF /\ Len(p.chain) > 0
           /\ top = "service"
           /\ Len(c) >= 2
           /\ TailIs(c, <<"device", "serviceList">>)
           /\ ServiceMatches(p.service)
        THEN [p EXCEPT !.chain = c, !.result = Ok(p.service.control_url)]
        ELSE [p EXCEPT !.chain = c]

OnCharacters(p, s) ==
    IF Len(p.chain) < 4 THEN p
    ELSE LET st == IF TailIs(p.chain, <<"device", "serviceList", "service", "serviceType">>)
                   THEN p.service.service_type \o s
                   ELSE p.service.service_type
             cu == IF TailIs(p.chain, <<"device", "serviceList", "service", "controlURL">>)
                   THEN p.service.control_url \o s
                   ELSE p.service.control_url
         IN  [p EXCEPT !.service = [service_type |-> st, control_url |-> cu]]

OnEvent(p, e) ==
    CASE e.t = "Error" -> [p EXCEPT !.result = Err("XmlError")]
      [] e.t = "StartElement" -> OnStartElement(p, e.v)
      [] e.t = "EndElement" -> OnEndElement(p)
      [] e.t = "Characters" -> OnCharacters(p, e.v)
      [] OTHER -> p

OnStreamEnd(p) == [p EXCEPT !.result = Err("InvalidResponse")]

RECURSIVE ParseFrom(_, _, _)
ParseFrom(p, d, i) ==
    IF p.result.kind # "none" THEN p.result
    ELSE IF i > Len(d) THEN OnStreamEnd(p).result
    ELSE ParseFrom(OnEvent(p, d[i]), d, i + 1)

parse_control_url(d) == ParseFrom(ParserInit, d, 1)

(***************************************************************************)
(* parse_result, search.rs 151-173.  A text is a sequence of characters    *)
(* (one-character strings).  The regular expression of search.rs 153:     *)
(* the key Location in any case, a colon, any white space, http://, four   *)
(* runs of digits separated by dots (capture 1), a colon, a run of digits  *)
(* (capture 2), and a slash with every character up to a carriage return   *)
(* (capture 3).  It is matched as the regex crate matches it: unanchored,  *)
(* leftmost, every repetition greedy.                                      *)
(***************************************************************************)
LowerCase == <<"a","b","c","d","e","f","g","h","i","j","k","l","m",
               "n","o","p","q","r","s","t","u","v","w","x","y","z">>
UpperCase == <<"A","B","C","D","E","F","G","H","I","J","K","L","M",
               "N","O","P","Q","R","S","T","U","V","W","X","Y","Z">>

\* simple case folding of a character
Fold(c) ==
    IF \E k \in 1..26 : UpperCase[k] = c
    THEN LowerCase[CHOOSE k \in 1..26 : UpperCase[k] = c]
    ELSE c

AsciiDigits == <<"0","1","2","3","4","5","6","7","8","9">>

IsAsciiDigit(c) == \E k \in 1..10 : AsciiDigits[k] = c

DigitVal(c) == (CHOOSE k \in 1..10 : AsciiDigits[k] = c) - 1

\* \d of the regex crate is the Unicode class Nd: it also takes digits that
\* are not ASCII, here ARABIC-INDIC DIGIT THREE
ArabicThree == "U+0663"

IsDigit(c) == IsAsciiDigit(c) \/ c = ArabicThree

IsSpace(c) == c \in {" ", "\t", "\r", "\n", "\f"}

LocationKey == <<"L","o","c","a","t","i","o","n">>

HttpScheme == <<"h","t","t","p",":","/","/">>

Literal(line, i, lit) ==
    /\ i + Len(lit) - 1 <= Len(line)
    /\ SubSeq(line, i, i + Len(lit) - 1) = lit

\* a literal compared character by character, case kept
LiteralCaseKept(line, i, lit) == Literal(line, i, lit)

LiteralNoCase(line, i, lit) ==
    /\ i + Len(lit) - 1 <= Len(line)
    /\ \A k \in 1..Len(lit) : Fold(line[i + k - 1]) = Fold(lit[k])

RECURSIVE SkipDigits(_, _)
SkipDigits(line, i) ==
    IF i <= Len(line) /\ IsDigit(line[i]) THEN SkipDigits(line, i + 1) ELSE i

RECURSIVE SkipSpace(_, _)
SkipSpace(line, i) ==
    IF i <= Len(line) /\ IsSpace(line[i]) THEN SkipSpace(line, i + 1) ELSE i

RECURSIVE SkipNotCR(_, _)
SkipNotCR(line, i) ==
    IF i <= Len(line) /\ line[i] # "\r" THEN SkipNotCR(line, i + 1) ELSE i

NoCaptures == [ok |-> FALSE, addr |-> <<>>, port |-> <<>>, path |-> <<>>]

\* the match of the expression that starts at character i, if there is one
MatchAt(line, i) ==
    LET k0 == i + Len(LocationKey)
        h0 == SkipSpace(line, k0 + 1)
        a0 == h0 + Len(HttpScheme)
        a1 == SkipDigits(line, a0)
        b1 == SkipDigits(line, a1 + 1)
        c1 == SkipDigits(line, b1 + 1)
        d1 == SkipDigits(line, c1 + 1)
        p1 == SkipDigits(line, d1 + 1)
        e1 == SkipNotCR(line, p1 + 1)
    IN  IF /\ LiteralNoCase(line, i, LocationKey)
           /\ Literal(line, k0, <<":">>)
           /\ Literal(line, h0, HttpScheme)
           /\ a1 > a0 /\ Literal(line, a1, <<".">>)
           /\ b1 > a1 + 1 /\ Literal(line, b1, <<".">>)
           /\ c1 > b1 + 1 /\ Literal(line, c1, <<".">>)
           /\ d1 > c1 + 1 /\ Literal(line, d1, <<":">>)
           /\ p1 > d1 + 1 /\ Literal(line, p1, <<"/">>)
        THEN [ok |-> TRUE,
              addr |-> SubSeq(line, a0, d1 - 1),
              port |-> SubSeq(line, d1 + 1, p1 - 1),
              path |-> SubSeq(line, p1, e1 - 1)]
        ELSE NoCaptures

\* re.captures(line): the leftmost match
Captures(line) ==
    LET starts == {i \in 1..Len(line) : MatchAt(line, i).ok} IN
    IF starts = {} THEN NoCaptures
    ELSE MatchAt(line, CHOOSE i \in starts : \A j \in starts : i <= j)

RECURSIVE Decimal(_)
\* the value of a string of ASCII digits
Decimal(ds) ==
    IF ds = <<>> THEN 0
    ELSE 10 * Decimal(SubSeq(ds, 1, Len(ds) - 1)) + DigitVal(ds[Len(ds)])

AllAscii(ds) == \A k \in 1..Len(ds) : IsAsciiDigit(ds[k])

Parsed(v) == [ok |-> TRUE, val |-> v]
ParseFailed == [ok |-> FALSE, val |-> 0]

\* port.parse::<u16>()
ParseU16(ds) ==
    IF ds # <<>> /\ AllAscii(ds) /\ Decimal(ds) <= 65535
    THEN Parsed(Decimal(ds))
    ELSE ParseFailed

RECURSIVE SplitOn(_, _)
\* s.split(sep)
SplitOn(s, sep) ==
    IF \A k \in 1..Len(s) : s[k] # sep THEN <<s>>
    ELSE LET k == CHOOSE i \in 1..Len(s) : s[i] = sep /\ \A j \in 1..(i - 1) : s[j] # sep
         IN  <<SubSeq(s, 1, k - 1)>> \o SplitOn(SubSeq(s, k + 1, Len(s)), sep)

\* one octet of addr.parse::<Ipv4Addr>(): one to three ASCII digits, at most 255
\* (whether an octet written with a leading zero is taken depends on the
\* release of the standard library; no input of the model has one)
OctetOk(ds) == ds # <<>> /\ Len(ds) <= 3 /\ AllAscii(ds) /\ Decimal(ds) <= 255

\* addr.parse::<Ipv4Addr>()
ParseIpv4(cs) ==
    LET parts == SplitOn(cs, ".") IN
    IF Len(parts) = 4 /\ \A k \in 1..4 : OctetOk(parts[k])
    THEN Parsed([k \in 1..4 |-> Decimal(parts[k])])
    ELSE ParseFailed

\* text.lines(): split at "\n", a final empty piece dropped, one "\r" before
\* the "\n" dropped
StripCR(l) == IF l # <<>> /\ l[Len(l)] = "\r" THEN SubSeq(l, 1, Len(l) - 1) ELSE l

Lines(t) ==
    LET pieces == SplitOn(t, "\n")
        kept == IF pieces[Len(pieces)] = <<>>
                THEN SubSeq(pieces, 1, Len(pieces) - 1)
                ELSE pieces
    IN  [k \in 1..Len(kept) |-> StripCR(kept[k])]

Pending == [kind |-> "pending", ip |-> <<>>, port |-> 0, path |-> <<>>]
NoLocation == [kind |-> "None", ip |-> <<>>, port |-> 0, path |-> <<>>]
Panic == [kind |-> "panic", ip |-> <<>>, port |-> 0, path |-> <<>>]
SomeLocation(ip, port, path) == [kind |-> "Some", ip |-> ip, port |-> port, path |-> path]

\* the Some(cap) arm, search.rs 158-169: the two unwraps abort the call
OnCaptures(cap) ==
    LET ip == ParseIpv4(cap.addr)
        port == ParseU16(cap.port)
    IN  IF ip.ok /\ port.ok THEN SomeLocation(ip.val, port.val, cap.path) ELSE Panic

RECURSIVE ScanLines(_, _)
ScanLines(ls, k) ==
    IF k > Len(ls) THEN NoLocation
    ELSE IF Captures(ls[k]).ok THEN OnCaptures(Captures(ls[k]))
    ELSE ScanLines(ls, k + 1)

parse_result(t) == ScanLines(Lines(t), 1)

(***************************************************************************)
(* The reply texts given to parse_result.  HeaderTexts are the well-formed *)
(* one-line replies <key>:<ws>http://<ipv4>:<port><path>, the key in every *)
(* spelling; ReplyTexts are replies of up to MaxLines lines, well-formed   *)
(* and malformed.                                                          *)
(***************************************************************************)
RECURSIVE Digits(_)
\* a number written in decimal, as Display does
Digits(n) == IF n < 10 THEN <<AsciiDigits[n + 1]>> ELSE Digits(n \div 10) \o <<AsciiDigits[(n % 10) + 1]>>

Dotted(ip) == Digits(ip[1]) \o <<".">> \o Digits(ip[2]) \o <<".">> \o Digits(ip[3]) \o <<".">> \o Digits(ip[4])

Upper(c) ==
    IF \E k \in 1..26 : LowerCase[k] = c
    THEN UpperCase[CHOOSE k \in 1..26 : LowerCase[k] = c]
    ELSE c

Keys == {[k \in 1..8 |-> IF k \in U THEN Upper(LocationKey[k]) ELSE Fold(LocationKey[k])] :
            U \in SUBSET (1..8)}

ControlUrlPath == <<"/","c","o","n","t","r","o","l","_","u","r","l">>

Header(key, ws, ip, port, path) ==
    [key |-> key, ws |-> ws, ip |-> ip, port |-> port, path |-> path]

NoHeader == Header(<<>>, <<>>, <<>>, 0, <<>>)

Headers ==
    {Header(k, w, i, p, u) :
        k \in Keys,
        w \in {<<>>, <<" ">>},
        i \in {<<0, 0, 0, 0>>, <<192, 168, 1, 254>>, <<10, 0, 0, 255>>},
        p \in {0, 5000, 65535},
        u \in {ControlUrlPath, <<"/">>}}

RawLine(key, ws, addr, port, path) ==
    key \o <<":">> \o ws \o HttpScheme \o addr \o <<":">> \o port \o path

Render(h) == RawLine(h.key, h.ws, Dotted(h.ip), Digits(h.port), h.path)

ReplyLines ==
    { <<"S","T",":","u","p","n","p">>,
      RawLine(LocationKey, <<" ">>, Dotted(<<192, 168, 1, 254>>), Digits(5000), <<"/","a">>),
      RawLine(<<"l","o","c","a","t","i","o","n">>, <<>>, Dotted(<<10, 0, 0, 255>>), Digits(80), <<"/","b">>),
      \* an octet above 255, a port above 65535, a digit that is not ASCII
      RawLine(LocationKey, <<>>, <<"2","5","6",".","0",".","0",".","1">>, Digits(80), <<"/","c">>),
      RawLine(LocationKey, <<>>, Dotted(<<10, 0, 0, 1>>), Digits(65536), <<"/","d">>),
      RawLine(LocationKey, <<>>, Dotted(<<10, 0, 0, 1>>), <<"8", ArabicThree>>, <<"/","e">>),
      \* no path, a host name, an upper-case scheme
      RawLine(LocationKey, <<>>, Dotted(<<10, 0, 0, 1>>), Digits(80), <<>>),
      RawLine(LocationKey, <<>>, <<"g","w">>, Digits(80), <<"/","f">>),
      <<"L","o","c","a","t","i","o","n",":","H","T","T","P",":","/","/","1",".","2",".","3",".","4",":","8","0","/","g">>,
      \* the key inside a longer header name, a carriage return inside the path
      <<"X","-">> \o RawLine(LocationKey, <<>>, Dotted(<<10, 0, 0, 2>>), Digits(81), <<"/","h">>),
      RawLine(LocationKey, <<>>, Dotted(<<10, 0, 0, 3>>), Digits(82), <<"/","i","\r","j">>) }

JoinLines(ls, end) == Flat([k \in 1..Len(ls) |-> ls[k] \o end])

ReplyTexts ==
    {JoinLines(ls, end) : ls \in SeqsUpTo(ReplyLines, MaxLines), end \in {<<"\r", "\n">>, <<"\n">>}}

(***************************************************************************)
(* The description documents fed to the parser: event sequences of         *)
(* well-formed documents, as the EventReader of search.rs 87 yields them.  *)
(* A document is root > device > serviceList with one service whose        *)
(* children are drawn freely (up to MaxItems of them), an optional earlier *)
(* sibling service and up to MaxSiblings later ones.                       *)
(***************************************************************************)
Elem(n, kids) == <<StartEv(n)>> \o kids \o <<EndEv(n)>>
Txt(n, s) == Elem(n, <<CharsEv(s)>>)
Svc(ty, url) == Elem("service", Txt("serviceType", ty) \o Txt("controlURL", url))
NestedSvc(kids) == Elem("device", Elem("serviceList", Elem("service", kids)))

Items ==
    { Txt("serviceType", WANIP),
      \* the type split in two Characters events by a child element
      Elem("serviceType", <<CharsEv("urn:schemas-upnp-org:service:WANIPConnection:")>>
                          \o Elem("b", <<>>) \o <<CharsEv("1")>>),
      Txt("controlURL", "/a"),
      Elem("controlURL", <<>>),
      \* a sub-device with its own serviceList placed inside the service
      NestedSvc(<<>>),
      NestedSvc(Txt("controlURL", "/n")),
      \* a controlURL that is not a direct child of the service
      Elem("x", Txt("controlURL", "/x")) }

Bodies == {Flat(b) : b \in SeqsUpTo(Items, MaxItems)}

Earlier ==
    { <<>>,
      Elem("service", Txt("serviceType", WANIP)),
      Svc("urn:schemas-upnp-org:service:Layer3Forwarding:1", "/t") }

Later ==
    { Svc(WANPPP, "/s"),
      Svc("urn:schemas-upnp-org:service:Layer3Forwarding:1", "/t") }

Laters == {Flat(l) : l \in SeqsUpTo(Later, MaxSiblings)}

\* the three layouts of the device tree around the serviceList
Shape(k, list) ==
    CASE k = "flat" -> Elem("root", Elem("device", Elem("serviceList", list)))
      [] k = "decoy" -> Elem("root", Elem("device",
                            Elem("service", Txt("serviceType", WANIP) \o Txt("controlURL", "/d"))
                            \o Elem("serviceList", list)))
      [] k = "sub" -> Elem("root", Elem("device", Elem("deviceList",
                            Elem("device", Elem("serviceList", list)))))

Shapes == {"flat", "decoy", "sub"}

Document(k, e, b, l) == <<OtherEv>> \o Shape(k, e \o Elem("service", b) \o l) \o <<OtherEv>>

Docs ==
    {Document("flat", e, b, l) : e \in Earlier, b \in Bodies, l \in Laters}
    \cup {Document(k, <<>>, b, l) : k \in Shapes, b \in Bodies, l \in Laters}

\* documents the reader rejects part-way: a prefix, then the reader's error
BrokenBase ==
    {Document("flat", e, b, <<>>) :
        e \in Earlier, b \in {Txt("controlURL", "/a"),
                              Txt("serviceType", WANIP) \o Txt("controlURL", "/a")}}

BrokenDocs == {SubSeq(d, 1, k) \o <<ErrorEv>> : d \in BrokenBase, k \in 0..6}
    \cup {SubSeq(d, 1, Len(d) - 3) \o <<ErrorEv>> : d \in BrokenBase}
    \* the error after the end of a service that holds a sub-device
    \cup {SubSeq(d, 1, Len(d) - 3) \o <<ErrorEv>> :
            d \in {Document("flat", <<>>, NestedSvc(Txt("controlURL", "/n")) \o Txt("serviceType", WANIP), <<>>),
                   Document("flat", <<>>, Txt("serviceType", WANIP) \o Txt("controlURL", "/a")
                                           \o NestedSvc(<<>>), <<>>)}}

(***************************************************************************)
(* The values of the variables of a function that is not running.          *)
(***************************************************************************)
XmlIdle ==
    /\ doc = <<>>
    /\ pos = 0
    /\ chain = <<>>
    /\ service = EmptyService
    /\ xresult = None

SearchIdle ==
    /\ spc = "idle"
    /\ timeout = 0
    /\ now = 0
    /\ sock = "none"
    /\ sent = 0
    /\ reply = NoDatagram
    /\ location = NoLocation
    /\ body = NoBody
    /\ gets = 0
    /\ inner = NoResult
    /\ sresult = NoResult

LocIdle ==
    /\ text = <<>>
    /\ hdr = NoHeader
    /\ lresult = Pending

(***************************************************************************)
(* The values of the control operations: the call, the answer of the       *)
(* gateway and the Result the operation returns.                           *)
(***************************************************************************)
NoCall == [op |-> "", protocol |-> "", external_port |-> 0, local_port |-> 0, lease_duration |-> 0]

NoResponse == [kind |-> "none", code |-> 0, desc |-> "", value |-> ""]

OpPending == [kind |-> "none", variant |-> "", inner |-> "", code |-> 0, desc |-> "", ip |-> "", port |-> 0]

\* Ok(ip) of get_external_ip, Ok(port) of add_any_port, Ok(()) of the others
OpOk(ip, port) == [OpPending EXCEPT !.kind = "Ok", !.ip = ip, !.port = port]

\* Err(v) for a variant v without a payload
OpErr(v) == [OpPending EXCEPT !.kind = "Err", !.variant = v]

\* Err(RequestError(e)) for a RequestError e without a payload of interest
RequestErr(e) == [OpPending EXCEPT !.kind = "Err", !.variant = "RequestError", !.inner = e]

\* RequestError::ErrorCode keeping the code only
ErrorCodeNoDescription(code, desc) ==
    [OpPending EXCEPT !.kind = "Err", !.variant = "RequestError", !.inner = "ErrorCode", !.code = code]

\* Err(RequestError(RequestError::ErrorCode(code, desc))), errors.rs 26
ErrorCode(code, desc) ==
    [OpPending EXCEPT !.kind = "Err", !.variant = "RequestError", !.inner = "ErrorCode",
                      !.code = code, !.desc = desc]

OpsIdle ==
    /\ ocall = NoCall
    /\ opc = "idle"
    /\ requests = 0
    /\ response = NoResponse
    /\ oresult = OpPending
    /\ ipresult = OpPending

(***************************************************************************)
(* The values of concurrent calls on one Gateway and of send_async.        *)
(***************************************************************************)
CallIds == 1..MaxCalls

\* the Gateway { addr, control_url } the calls are made on, gateway.rs 11-16
TheGateway == [addr |-> "192.168.1.254:5000", control_url |-> "/ctl"]

NoRequest == [addr |-> "", control_url |-> "", op |-> "", external_port |-> 0, client |-> 0]

IdleTask == [pc |-> "idle", call |-> NoCall, core |-> 0, request |-> NoRequest,
             response |-> NoResponse, result |-> OpPending]

ConcIdle ==
    /\ gw = TheGateway
    /\ tasks = [i \in CallIds |-> IdleTask]
    /\ conns = 0

NoUrl == [ip |-> <<>>, port |-> 0, path |-> <<>>]

NoAnswer == [kind |-> "none", status |-> 0, utf8 |-> TRUE, body |-> ""]

SoapPending == [kind |-> "none", val |-> ""]

SoapIdle ==
    /\ sst = "idle"
    /\ surl = NoUrl
    /\ sanswer = NoAnswer
    /\ posts = 0
    /\ soapres = SoapPending
    /\ rqerr = ""

(***************************************************************************)
(* SpecXml: parse_control_url as a state machine, one action per turn of   *)
(* the loop at search.rs 100-146.                                          *)
(***************************************************************************)
CurP == [chain |-> chain, service |-> service, result |-> xresult]

Consume(p) ==
    /\ chain' = p.chain
    /\ service' = p.service
    /\ xresult' = p.result
    /\ pos' = pos + 1
    /\ UNCHANGED <<doc, locVars, searchVars, opsVars, concVars, soapVars>>

Running == xresult.kind = "none"

NextIs(t) == Running /\ pos < Len(doc) /\ doc[pos + 1].t = t

XmlInit ==
    /\ doc \in Docs \cup BrokenDocs
    /\ pos = 0
    /\ chain = <<>>
    /\ service = EmptyService
    /\ xresult = None
    /\ LocIdle
    /\ SearchIdle
    /\ OpsIdle
    /\ ConcIdle
    /\ SoapIdle

StartElement == NextIs("StartElement") /\ Consume(OnStartElement(CurP, doc[pos + 1].v))

EndElement == NextIs("EndElement") /\ Consume(OnEndElement(CurP))

Characters == NextIs("Characters") /\ Consume(OnCharacters(CurP, doc[pos + 1].v))

OtherEvent == NextIs("Other") /\ Consume(OnEvent(CurP, doc[pos + 1]))

XmlError == NextIs("Error") /\ Consume(OnEvent(CurP, doc[pos + 1]))

StreamEnd ==
    /\ Running
    /\ pos = Len(doc)
    /\ xresult' = OnStreamEnd(CurP).result
    /\ UNCHANGED <<doc, pos, chain, service, locVars, searchVars, opsVars, concVars, soapVars>>

XmlNext ==
    \/ StartElement
    \/ EndElement
    \/ Characters
    \/ OtherEvent
    \/ XmlError
    \/ StreamEnd

SpecXml == XmlInit /\ [][XmlNext]_vars

(***************************************************************************)
(* What a document says, read as a tree: every open element carries the    *)
(* text of its own serviceType and controlURL children.  The claims about  *)
(* parse_control_url are stated against this reading.                      *)
(***************************************************************************)
Frame(n) == [name |-> n, st |-> "", cu |-> ""]

TreeChars(stack, s) ==
    LET n == Len(stack) IN
    IF n < 2 THEN stack
    ELSE IF stack[n].name = "serviceType"
         THEN [stack EXCEPT ![n - 1].st = @ \o s]
    ELSE IF stack[n].name = "controlURL"
         THEN [stack EXCEPT ![n - 1].cu = @ \o s]
    ELSE stack

TreeEvent(stack, e) ==
    CASE e.t = "StartElement" -> Append(stack, Frame(e.v))
      [] e.t = "EndElement" -> SubSeq(stack, 1, Len(stack) - 1)
      [] e.t = "Characters" -> TreeChars(stack, e.v)
      [] OTHER -> stack

RECURSIVE TreeAt(_, _)
\* the open elements after the first k events of d
TreeAt(d, k) == IF k = 0 THEN <<>> ELSE TreeEvent(TreeAt(d, k - 1), d[k])

\* event k of d closes an element on path device/serviceList/service
ClosesService(d, k) ==
    /\ k \in 1..Len(d)
    /\ d[k].t = "EndElement"
    /\ LET st == TreeAt(d, k - 1) IN
         /\ Len(st) >= 3
         /\ st[Len(st)].name = "service"
         /\ st[Len(st) - 1].name = "serviceList"
         /\ st[Len(st) - 2].name = "device"

\* the service element closed by event k, with its own two texts
ClosedService(d, k) == LET st == TreeAt(d, k - 1) IN st[Len(st)]

TrueMatch(f) == f.st \in {WANIP, WANPPP} /\ f.cu # ""

\* the end tags of the services of d that match, in document order
MatchEnds(d) == {k \in 1..Len(d) : ClosesService(d, k) /\ TrueMatch(ClosedService(d, k))}

Min(S) == CHOOSE x \in S : \A y \in S : x <= y

WellFormed(d) == \A k \in 1..Len(d) : d[k].t # "Error"

Done == xresult.kind # "none"

\* C1 (as claimed): when a service of a well-formed document matches,
\* parse_control_url returns the controlURL of the first one, and stops at
\* the end tag of that service.
C1_FirstMatchingServiceWins ==
    (Done /\ WellFormed(doc) /\ MatchEnds(doc) # {}) =>
        /\ xresult = Ok(ClosedService(doc, Min(MatchEnds(doc))).cu)
        /\ pos = Min(MatchEnds(doc))

\* C2 (as claimed): when a device/serviceList/service element closes, the
\* scratch serviceType and controlURL are exactly the text of that service's
\* own serviceType and controlURL children.
C2_ScratchIsOwnText ==
    (pos > 0 /\ ClosesService(doc, pos)) =>
        /\ service.service_type = ClosedService(doc, pos).st
        /\ service.control_url = ClosedService(doc, pos).cu

\* C3 (as claimed): a well-formed document none of whose services matches
\* gives Err(InvalidResponse), and the result is never Ok("").
C3_NoMatchIsInvalidResponse ==
    /\ (Done /\ WellFormed(doc) /\ MatchEnds(doc) = {}) => xresult = Err("InvalidResponse")
    /\ xresult # Ok("")

(***************************************************************************)
(* SpecLoc: parse_result applied to one reply text.                        *)
(***************************************************************************)
LocInit ==
    /\ \/ hdr \in Headers /\ text = Render(hdr)
       \/ hdr = NoHeader /\ text \in ReplyTexts
    /\ lresult = Pending
    /\ XmlIdle
    /\ SearchIdle
    /\ OpsIdle
    /\ ConcIdle
    /\ SoapIdle

ParseResult ==
    /\ lresult = Pending
    /\ lresult' = parse_result(text)
    /\ UNCHANGED <<text, hdr, xmlVars, searchVars, opsVars, concVars, soapVars>>

LocNext == ParseResult

SpecLoc == LocInit /\ [][LocNext]_vars

\* C6: a well-formed header line gives the address and the path written in
\* it, whatever the spelling of the key: the same pair as the line spelled
\* Location, so every spelling gives the same pair;
\* location:http://0.0.0.0:0/control_url gives (0.0.0.0:0, /control_url).
C6_KeyCaseIrrelevant ==
    (lresult # Pending /\ hdr # NoHeader) =>
        /\ lresult = SomeLocation(hdr.ip, hdr.port, hdr.path)
        /\ parse_result(Render([hdr EXCEPT !.key = LocationKey])) = lresult
        /\ (hdr = Header(<<"l","o","c","a","t","i","o","n">>, <<>>, <<0, 0, 0, 0>>, 0, ControlUrlPath)
                => lresult = SomeLocation(<<0, 0, 0, 0>>, 0, ControlUrlPath))

\* the upper-case line of the test has been parsed and gave a location
C6_Witness ==
    /\ hdr = Header(<<"L","O","C","A","T","I","O","N">>, <<>>, <<0, 0, 0, 0>>, 0, ControlUrlPath)
    /\ lresult.kind = "Some"

\* C7 (as claimed): parse_result never aborts, whatever the reply text.
C7_NeverAborts == lresult.kind # "panic"

(***************************************************************************)
(* SpecSearch: search_gateway_from_timeout, search.rs 53-68.  The chain    *)
(*   bind, send_dgram, recv_dgram, from_utf8 + parse_result,               *)
(*   get_control_url (HTTP GET, parse_control_url), Gateway::new           *)
(* runs inside .timeout(timeout).from_err().  One action per stage; time   *)
(* passes in Tick.  The Timeout future polls the chain first               *)
(* and its deadline second: a stage whose input is there completes also    *)
(* after the deadline, and a stage that is left waiting after the deadline *)
(* gives Elapsed.                                                          *)
(***************************************************************************)
TimedOut == Failed("IoError(TimedOut)")

\* the deadline of .timeout(timeout), search.rs 66, has passed
expired == now >= timeout

\* the conversion giving InvalidResponse for every timeout::Error
FromTimeoutErrorInvalid(e) == Failed("InvalidResponse")

\* impl From<tokio::timer::timeout::Error<SearchError>> for SearchError,
\* errors.rs 200-204: the argument is not looked at
FromTimeoutError(e) == TimedOut

InnerError(e) == [kind |-> "Inner", err |-> e]
Elapsed == [kind |-> "Elapsed", err |-> ""]

\* format!("http://{}{}", location.0, location.1).parse(), search.rs 72:
\* a path with a blank in it is no URI
UriParses(loc) == \A k \in 1..Len(loc.path) : loc.path[k] \notin {" ", "\t"}

SearchReplies ==
    { JoinLines(<< <<"S","T",":","u","p","n","p">>,
                   RawLine(LocationKey, <<" ">>, Dotted(<<192, 168, 1, 254>>), Digits(5000), <<"/","a">>) >>,
                <<"\r", "\n">>),
      JoinLines(<< RawLine(<<"l","o","c","a","t","i","o","n">>, <<>>, Dotted(<<10, 0, 0, 255>>), Digits(80), <<"/","b">>) >>,
                <<"\n">>),
      JoinLines(<< <<"S","T",":","u","p","n","p">> >>, <<"\r", "\n">>),
      JoinLines(<< RawLine(LocationKey, <<>>, <<"2","5","6",".","0",".","0",".","1">>, Digits(80), <<"/","c">>) >>,
                <<"\r", "\n">>),
      JoinLines(<< RawLine(LocationKey, <<>>, Dotted(<<10, 0, 0, 1>>), Digits(80), <<"/","a"," ","b">>) >>,
                <<"\r", "\n">>) }

Datagrams ==
    {[kind |-> "text", text |-> t] : t \in SearchReplies}
    \cup {[kind |-> "not utf8", text |-> <<>>], [kind |-> "io error", text |-> <<>>]}

SearchDocs ==
    { Document("flat", <<>>, Txt("serviceType", WANIP) \o Txt("controlURL", "/a"), <<>>),
      Document("sub", <<>>, Txt("controlURL", "/a"), Svc(WANPPP, "/s")),
      Document("flat", <<>>, Txt("controlURL", "/a"), <<>>),
      SubSeq(Document("flat", <<>>, Txt("controlURL", "/a"), <<>>), 1, 6) \o <<ErrorEv>> }

HttpOutcomes ==
    {[kind |-> "body", events |-> d] : d \in SearchDocs}
    \cup {[kind |-> "http error", events |-> <<>>]}

\* the chain has completed with r: Ok passes through .timeout().from_err(),
\* an error is converted by From<timeout::Error<SearchError>>
Complete(r) ==
    /\ inner' = r
    /\ sresult' = IF r.kind = "Err" THEN FromTimeoutError(InnerError(r.err)) ELSE r
    /\ spc' = "done"

\* the chain is left waiting in stage st; the deadline is polled next
Wait(st) ==
    IF expired
    THEN /\ sresult' = FromTimeoutError(Elapsed)
         /\ spc' = "done"
         /\ inner' = inner
    ELSE /\ spc' = st
         /\ UNCHANGED <<inner, sresult>>

SearchInit ==
    /\ SearchIdle
    /\ XmlIdle
    /\ LocIdle
    /\ OpsIdle
    /\ ConcIdle
    /\ SoapIdle

SearchCall ==
    /\ spc = "idle"
    /\ spc' = "bind"
    /\ timeout' \in 0..MaxTimeout
    /\ now' = 0
    /\ UNCHANGED <<sock, sent, reply, location, body, gets, inner, sresult, xmlVars, locVars, opsVars, concVars, soapVars>>

\* UdpSocket::bind(&addr), search.rs 55
Bind ==
    /\ spc = "bind"
    /\ \/ /\ sock' = "open"
          /\ Wait("send")
       \/ /\ sock' = sock
          /\ Complete(Failed("IoError"))
    /\ UNCHANGED <<timeout, now, sent, reply, location, body, gets, xmlVars, locVars, opsVars, concVars, soapVars>>

\* socket.send_dgram(SEARCH_REQUEST, 239.255.255.250:1900), search.rs 57
SendDgram ==
    /\ spc = "send"
    /\ \/ /\ sent' = sent + 1
          /\ sock' = sock
          /\ Wait("recv")
       \/ /\ sent' = sent
          /\ sock' = "closed"
          /\ Complete(Failed("IoError"))
    /\ UNCHANGED <<timeout, now, reply, location, body, gets, xmlVars, locVars, opsVars, concVars, soapVars>>

\* recv_dgram completes, then search.rs 59-65 up to the HTTP GET being sent
RecvDgram ==
    /\ spc = "recv"
    /\ \E d \in Datagrams :
        /\ reply' = d
        /\ sock' = "closed"
        /\ IF d.kind = "io error" THEN
                /\ Complete(Failed("IoError"))
                /\ UNCHANGED <<location, gets>>
           ELSE IF d.kind = "not utf8" THEN
                /\ Complete(Failed("Utf8Error"))
                /\ UNCHANGED <<location, gets>>
           ELSE LET loc == parse_result(d.text) IN
                /\ location' = loc
                /\ IF loc.kind = "panic" THEN
                        /\ inner' = Aborted
                        /\ sresult' = Aborted
                        /\ spc' = "done"
                        /\ gets' = gets
                   ELSE IF loc.kind = "None" THEN
                        /\ Complete(Failed("InvalidResponse"))
                        /\ gets' = gets
                   ELSE IF ~UriParses(loc) THEN
                        /\ Complete(Failed("InvalidUri"))
                        /\ gets' = gets
                   ELSE /\ gets' = gets + 1
                        /\ Wait("fetch")
    /\ UNCHANGED <<timeout, now, sent, body, xmlVars, locVars, opsVars, concVars, soapVars>>

\* a Gateway made of whatever the extractor gave, its error value included
ControlUrlOfAnyResult(b, loc) ==
    Found(Gateway(loc.ip, loc.port, parse_control_url(b.events).val))

\* parse_control_url(body) and Gateway::new, search.rs 77 and 65
ControlUrlOf(b, loc) ==
    LET r == parse_control_url(b.events) IN
    IF r.kind = "Ok" THEN Found(Gateway(loc.ip, loc.port, r.val)) ELSE Failed(r.val)

\* client.get(uri) and concat2 complete and the closure of search.rs 76-79
\* runs: the body is parsed in the same poll
HttpGet ==
    /\ spc = "fetch"
    /\ \E h \in HttpOutcomes :
        /\ body' = h
        /\ IF h.kind = "http error"
           THEN Complete(Failed("HttpError"))
           ELSE Complete(ControlUrlOf(h, location))
    /\ UNCHANGED <<timeout, now, sock, sent, reply, location, gets, xmlVars, locVars, opsVars, concVars, soapVars>>

\* time passes while the call is under way
Tick ==
    /\ spc \in {"bind", "send", "recv", "fetch"}
    /\ now < timeout
    /\ now' = now + 1
    /\ UNCHANGED <<spc, timeout, sock, sent, reply, location, body, gets, inner, sresult, xmlVars, locVars, opsVars, concVars, soapVars>>

\* the task is polled after the deadline and the chain is still waiting:
\* Timeout answers Err(elapsed) and keeps the chain it wraps, and with it
\* whatever the chain owns, search.rs 66
TimeoutFire ==
    /\ spc \in {"send", "recv", "fetch"}
    /\ expired
    /\ sresult' = FromTimeoutError(Elapsed)
    /\ spc' = "done"
    /\ sock' = sock
    /\ UNCHANGED <<timeout, now, sent, reply, location, body, gets, inner, xmlVars, locVars, opsVars, concVars, soapVars>>

SearchNext ==
    \/ SearchCall
    \/ Bind
    \/ SendDgram
    \/ RecvDgram
    \/ HttpGet
    \/ Tick
    \/ TimeoutFire

SpecSearch == SearchInit /\ [][SearchNext]_vars

\* the timer fires, the executor polls a woken task, and code that needs no
\* input runs to its end; nothing makes a datagram or an HTTP answer arrive
FairSearch ==
    /\ SpecSearch
    /\ WF_vars(SearchCall)
    /\ WF_vars(Bind)
    /\ WF_vars(Tick)
    /\ WF_vars(TimeoutFire)

Waiting == spc \in {"send", "recv", "fetch"}

\* C4 (as claimed): a failure that is no expiry of the timeout reaches the
\* caller as its own error: Utf8Error for a reply that is not UTF-8,
\* InvalidResponse for a reply without Location or a document without a
\* matching service, XmlError for an XML syntax error, HttpError for an HTTP
\* failure; none is reported as a timeout error when the timeout has not expired.
C4_FailuresKeepTheirKind ==
    (spc = "done" /\ ~expired) =>
        /\ reply.kind = "not utf8" => sresult = Failed("Utf8Error")
        /\ (reply.kind = "text" /\ location.kind = "None") => sresult = Failed("InvalidResponse")
        /\ body.kind = "http error" => sresult = Failed("HttpError")
        /\ (body.kind = "body" /\ parse_control_url(body.events) = Err("InvalidResponse"))
                => sresult = Failed("InvalidResponse")
        /\ (body.kind = "body" /\ parse_control_url(body.events) = Err("XmlError"))
                => sresult = Failed("XmlError")
        /\ inner.kind = "Err" => sresult # TimedOut

\* C5 (as claimed): a call that ends after its timeout has expired does not
\* end with a Gateway or with InvalidResponse.
C5_NoGatewayAfterExpiry ==
    (spc = "done" /\ expired) => (sresult.kind # "Ok" /\ sresult # Failed("InvalidResponse"))

\* C5 (amended): a call that waits for the reply datagram or for the
\* description document ends; when it ends after the deadline with the chain
\* inside still waiting, and so whenever no reply arrives at all, it ends
\* with the timeout error IoError(TimedOut).
C5_TimeoutEndsTheWait ==
    /\ [](Waiting => <>(spc = "done"))
    /\ []((spc = "done" /\ sent = 1 /\ reply = NoDatagram) => sresult = TimedOut)
    /\ [][(Waiting /\ expired /\ spc' = "done" /\ inner' = NoResult) => sresult' = TimedOut]_vars

\* the timeout expired while the call waited for a reply that never came
C5_Witness ==
    /\ spc = "done"
    /\ timeout > 0
    /\ sent = 1
    /\ reply = NoDatagram
    /\ sresult = TimedOut

(***************************************************************************)
(* SpecOps: the control operations of a Gateway.  The synchronous facade   *)
(* (gateway.rs 18-71) builds a reactor and an asynchronous gateway for     *)
(* each call and runs the operation of the engine to completion.  The      *)
(* engine (tokio/gateway.rs) is modelled after sections 4.4 and 4.5 of the *)
(* specification: local checks, one SOAP request, and on a fault the       *)
(* translation of the error code into the error enumeration of the         *)
(* operation (errors.rs 43-128).                                           *)
(***************************************************************************)
Operations == {"get_external_ip", "add_port", "add_any_port", "remove_port"}

\* PortMappingProtocol
Protocols == {"TCP", "UDP"}

\* the variants of the four error enumerations, errors.rs 43-128
GetExternalIpError == {"ActionNotAuthorized", "RequestError"}

RemovePortError == {"ActionNotAuthorized", "NoSuchPortMapping", "RequestError"}

AddAnyPortError ==
    {"ActionNotAuthorized", "InternalPortZeroInvalid", "NoPortsAvailable", "ExternalPortInUse",
     "OnlyPermanentLeasesSupported", "DescriptionTooLong", "RequestError"}

\* AddPortError without the SamePortValuesRequired variant
AddPortErrorNoSamePort ==
    {"ActionNotAuthorized", "InternalPortZeroInvalid", "ExternalPortZeroInvalid", "PortInUse",
     "OnlyPermanentLeasesSupported", "DescriptionTooLong", "RequestError"}

AddPortError ==
    {"ActionNotAuthorized", "InternalPortZeroInvalid", "ExternalPortZeroInvalid", "PortInUse",
     "SamePortValuesRequired", "OnlyPermanentLeasesSupported", "DescriptionTooLong", "RequestError"}

\* the error enumeration an operation returns
ErrorEnum(op) ==
    CASE op = "get_external_ip" -> GetExternalIpError
      [] op = "remove_port" -> RemovePortError
      [] op = "add_any_port" -> AddAnyPortError
      [] op = "add_port" -> AddPortError

\* the mapping table of section 4.4: the variant a UPnP error code stands
\* for, "" for a code that is not in the table
FaultVariant(code) ==
    CASE code \in {401, 606} -> "ActionNotAuthorized"
      [] code = 714 -> "NoSuchPortMapping"
      [] code = 715 -> "NoPortsAvailable"
      [] code = 716 -> "InternalPortZeroInvalid"
      [] code = 717 -> "PortInUse"
      [] code = 724 -> "SamePortValuesRequired"
      [] code = 725 -> "OnlyPermanentLeasesSupported"
      [] code = 728 -> "DescriptionTooLong"
      [] OTHER -> ""

\* the error translator of section 4.4: an operation surfaces the variant
\* of the table when its enumeration has it, and the generic
\* ErrorCode(code, description) otherwise
Translate(op, code, desc) ==
    IF FaultVariant(code) \in ErrorEnum(op) \ {"RequestError"}
    THEN OpErr(FaultVariant(code))
    ELSE ErrorCode(code, desc)

\* the local checks of section 4.5 with the check of external_port left out
LocalErrorsInternalOnly(c) ==
    {e \in {"InternalPortZeroInvalid"} : c.op \in {"add_port", "add_any_port"} /\ c.local_port = 0}

\* the local checks of section 4.5: the errors the arguments of a call give
\* rise to before anything is sent; the section does not say which of the
\* two checks of add_port comes first
LocalErrors(c) ==
    {e \in {"InternalPortZeroInvalid"} : c.op \in {"add_port", "add_any_port"} /\ c.local_port = 0}
    \cup {e \in {"ExternalPortZeroInvalid"} : c.op = "add_port" /\ c.external_port = 0}

\* the ports and lease durations the calls of the model are made with
ExternalPorts == {0, 1, 8080}
LocalPorts == {0, 80}
LeaseDurations == {0, 60}

\* a draw over all of u16
RandomRangeU16 == [lo |-> 0, hi |-> 65535]

\* the range of the random draw of add_any_port, [1, 65534] (section 4.5)
RandomRange == [lo |-> 1, hi |-> 65534]

\* values the random draw can produce: the ends of the range, the values
\* next to them and one in the middle
RandomPorts == {p \in {0, 1, 2, 32768, 65533, 65534, 65535} : RandomRange.lo <= p /\ p <= RandomRange.hi}

Calls(op) ==
    CASE op = "get_external_ip" -> {[NoCall EXCEPT !.op = op]}
      [] op = "add_port" ->
            {[op |-> op, protocol |-> p, external_port |-> e, local_port |-> l, lease_duration |-> d] :
                p \in Protocols, e \in ExternalPorts, l \in LocalPorts, d \in LeaseDurations}
      [] op = "add_any_port" ->
            {[op |-> op, protocol |-> p, external_port |-> 0, local_port |-> l, lease_duration |-> d] :
                p \in Protocols, l \in LocalPorts, d \in LeaseDurations}
      [] op = "remove_port" ->
            {[NoCall EXCEPT !.op = op, !.protocol = p, !.external_port = e] :
                p \in Protocols, e \in ExternalPorts}
      [] op = "get_any_address" ->
            {[op |-> op, protocol |-> p, external_port |-> 0, local_port |-> l, lease_duration |-> d] :
                p \in Protocols, l \in LocalPorts, d \in LeaseDurations}

\* what the gateway can answer: a SOAP fault with errorCode and
\* errorDescription, a response envelope (for GetExternalIPAddress with or
\* without NewExternalIPAddress), or no answer because the transport failed
FaultCodes == {401, 606, 714, 715, 716, 717, 724, 725, 728, 501, 718}
FaultTexts == {"Action denied", "Conflict"}

Responses ==
    {[kind |-> "fault", code |-> c, desc |-> d, value |-> ""] : c \in FaultCodes, d \in FaultTexts}
    \cup {[kind |-> "success", code |-> 0, desc |-> "", value |-> v] : v \in {"203.0.113.7", ""}}
    \cup {[kind |-> "transport", code |-> 0, desc |-> "", value |-> e] : e \in {"HttpError", "IoError"}}

\* the Result of an operation whose request completed with r
Decode(c, r) ==
    CASE r.kind = "fault" -> Translate(c.op, r.code, r.desc)
      [] r.kind = "transport" -> RequestErr(r.value)
      [] r.kind = "success" ->
            CASE c.op = "get_external_ip" ->
                    IF r.value = "" THEN RequestErr("InvalidResponse") ELSE OpOk(r.value, 0)
              [] c.op = "add_any_port" -> OpOk("", c.external_port)
              [] OTHER -> OpOk("", 0)

\* one call of an operation: the local checks, then the SOAP request
Begin(c) ==
    /\ IF LocalErrors(c) # {}
       THEN /\ \E e \in LocalErrors(c) : oresult' = OpErr(e)
            /\ ocall' = c
            /\ opc' = "done"
            /\ requests' = requests
       ELSE /\ opc' = "sent"
            /\ requests' = requests + 1
            /\ oresult' = oresult
            /\ IF c.op = "add_any_port"
               THEN \E p \in RandomPorts : ocall' = [c EXCEPT !.external_port = p]
               ELSE ocall' = c
    /\ UNCHANGED <<response, ipresult, xmlVars, locVars, searchVars, concVars, soapVars>>

OpsInit ==
    /\ OpsIdle
    /\ ConcIdle
    /\ SoapIdle
    /\ XmlIdle
    /\ LocIdle
    /\ SearchIdle

\* Gateway::get_external_ip, gateway.rs 20-24
GetExternalIp ==
    /\ opc = "idle"
    /\ \E c \in Calls("get_external_ip") : Begin(c)

\* Gateway::add_port, gateway.rs 58-62
AddPort ==
    /\ opc = "idle"
    /\ \E c \in Calls("add_port") : Begin(c)

\* Gateway::add_any_port, gateway.rs 50-54
AddAnyPort ==
    /\ opc = "idle"
    /\ \E c \in Calls("add_any_port") : Begin(c)

\* Gateway::remove_port, gateway.rs 65-69
RemovePort ==
    /\ opc = "idle"
    /\ \E c \in Calls("remove_port") : Begin(c)

\* Gateway::get_any_address, gateway.rs 35-39: the engine composes
\* get_external_ip, which has no local check, with add_any_port
GetAnyAddress ==
    /\ opc = "idle"
    /\ \E c \in Calls("get_any_address") : ocall' = c
    /\ opc' = "sent"
    /\ requests' = requests + 1
    /\ UNCHANGED <<response, oresult, ipresult, xmlVars, locVars, searchVars, concVars, soapVars>>

\* the codes a gateway reports a conflicting mapping with
ConflictCodes == {717, 718, 724}

\* a response handler that, for add_any_port, answers a port conflict by
\* drawing another port and sending again
SoapResponseRetrying ==
    /\ opc = "sent"
    /\ ocall.op \in Operations
    /\ \E r \in Responses :
        /\ response' = r
        /\ IF ocall.op = "add_any_port" /\ r.kind = "fault" /\ r.code \in ConflictCodes
              /\ requests < 3
           THEN /\ \E p \in RandomPorts : ocall' = [ocall EXCEPT !.external_port = p]
                /\ requests' = requests + 1
                /\ UNCHANGED <<opc, oresult>>
           ELSE /\ oresult' = Decode(ocall, r)
                /\ opc' = "done"
                /\ UNCHANGED <<ocall, requests>>
    /\ UNCHANGED <<ipresult, xmlVars, locVars, searchVars, concVars, soapVars>>

\* the SOAP request completes and core.run returns the Result
SoapResponse ==
    /\ opc = "sent"
    /\ ocall.op \in Operations
    /\ \E r \in Responses :
        /\ response' = r
        /\ oresult' = Decode(ocall, r)
    /\ opc' = "done"
    /\ UNCHANGED <<ocall, requests, ipresult, xmlVars, locVars, searchVars, concVars, soapVars>>

\* the first sub-operation's error passed on unwrapped, kind only
WrapIpErrorLossy(e) == RequestErr("InvalidResponse")

\* get_any_address: an error of get_external_ip as an AddAnyPortError,
\* ActionNotAuthorized as ActionNotAuthorized, RequestError(e) as
\* RequestError(e)
WrapIpError(e) ==
    IF e.variant = "ActionNotAuthorized"
    THEN OpErr("ActionNotAuthorized")
    ELSE [OpPending EXCEPT !.kind = "Err", !.variant = "RequestError", !.inner = e.inner,
                           !.code = e.code, !.desc = e.desc]

\* get_any_address: the request of get_external_ip completes; on Ok the
\* engine goes on with add_any_port (local check, draw, second request)
ExternalIpResponse ==
    /\ opc = "sent"
    /\ ocall.op = "get_any_address"
    /\ \E r \in Responses :
        /\ response' = r
        /\ ipresult' = Decode([ocall EXCEPT !.op = "get_external_ip"], r)
    /\ IF ipresult'.kind = "Err"
       THEN /\ oresult' = WrapIpError(ipresult')
            /\ opc' = "done"
            /\ UNCHANGED <<ocall, requests>>
       ELSE IF LocalErrors([ocall EXCEPT !.op = "add_any_port"]) # {}
       THEN /\ \E e \in LocalErrors([ocall EXCEPT !.op = "add_any_port"]) : oresult' = OpErr(e)
            /\ opc' = "done"
            /\ UNCHANGED <<ocall, requests>>
       ELSE /\ \E p \in RandomPorts : ocall' = [ocall EXCEPT !.external_port = p]
            /\ requests' = requests + 1
            /\ opc' = "mapping"
            /\ oresult' = oresult
    /\ UNCHANGED <<xmlVars, locVars, searchVars, concVars, soapVars>>

\* get_any_address: the request of add_any_port completes
MappingResponse ==
    /\ opc = "mapping"
    /\ \E r \in Responses :
        /\ response' = r
        /\ LET m == Decode([ocall EXCEPT !.op = "add_any_port"], r)
           IN oresult' = IF m.kind = "Ok" THEN OpOk(ipresult.ip, m.port) ELSE m
    /\ opc' = "done"
    /\ UNCHANGED <<ocall, requests, ipresult, xmlVars, locVars, searchVars, concVars, soapVars>>

OpsNext ==
    \/ GetExternalIp
    \/ AddPort
    \/ AddAnyPort
    \/ RemovePort
    \/ SoapResponse
    \/ GetAnyAddress
    \/ ExternalIpResponse
    \/ MappingResponse

SpecOps == OpsInit /\ [][OpsNext]_vars

\* the operation has returned after a SOAP fault with this error code
Faulted(op, code) ==
    /\ opc = "done"
    /\ ocall.op = op
    /\ response.kind = "fault"
    /\ response.code = code

\* C8: a fault code of the mapping table that is relevant to the operation
\* is returned as the matching variant of the operation's error enumeration:
\* 401 and 606 as ActionNotAuthorized on every operation, 714 as
\* NoSuchPortMapping on remove_port, 715 as NoPortsAvailable on add_any_port,
\* 717 as PortInUse and 724 as SamePortValuesRequired on add_port, 725 as
\* OnlyPermanentLeasesSupported and 728 as DescriptionTooLong on add_port and
\* add_any_port.
C8_TableFaultsTranslate ==
    /\ \A op \in Operations :
        /\ Faulted(op, 401) => oresult = OpErr("ActionNotAuthorized")
        /\ Faulted(op, 606) => oresult = OpErr("ActionNotAuthorized")
    /\ Faulted("remove_port", 714) => oresult = OpErr("NoSuchPortMapping")
    /\ Faulted("add_any_port", 715) => oresult = OpErr("NoPortsAvailable")
    /\ Faulted("add_port", 717) => oresult = OpErr("PortInUse")
    /\ Faulted("add_port", 724) => oresult = OpErr("SamePortValuesRequired")
    /\ \A op \in {"add_port", "add_any_port"} :
        /\ Faulted(op, 725) => oresult = OpErr("OnlyPermanentLeasesSupported")
        /\ Faulted(op, 728) => oresult = OpErr("DescriptionTooLong")

\* add_port got fault 724 from the gateway and returned SamePortValuesRequired
C8_Witness ==
    /\ Faulted("add_port", 724)
    /\ requests = 1
    /\ oresult.variant = "SamePortValuesRequired"

\* the codes of the mapping table an operation has a variant for
KnownCodes(op) ==
    CASE op = "get_external_ip" -> {401, 606}
      [] op = "remove_port" -> {401, 606, 714}
      [] op = "add_any_port" -> {401, 606, 715, 716, 725, 728}
      [] op = "add_port" -> {401, 606, 716, 717, 724, 725, 728}

\* C9: a fault whose code is outside the known set of the operation (a code
\* that is not in the table, or a code of the table that belongs to another
\* operation) is returned as RequestError(ErrorCode(code, description)) with
\* the code and the description of the fault body: it is an error, and
\* neither the code nor the description is lost.
C9_UnknownFaultsKeepCodeAndText ==
    (opc = "done" /\ ocall.op \in Operations /\ response.kind = "fault"
        /\ response.code \notin KnownCodes(ocall.op)) =>
        /\ oresult.kind = "Err"
        /\ oresult.variant = "RequestError"
        /\ oresult.inner = "ErrorCode"
        /\ oresult.code = response.code
        /\ oresult.desc = response.desc

\* remove_port got fault 717, a code of add_port, and returned it as
\* ErrorCode(717, description)
C9_Witness ==
    /\ Faulted("remove_port", 717)
    /\ response.desc = "Conflict"
    /\ oresult = ErrorCode(717, "Conflict")

\* the call was made with a local port 0, or add_port with external port 0
ZeroPortCall ==
    /\ opc # "idle"
    /\ \/ ocall.op \in {"add_port", "add_any_port"} /\ ocall.local_port = 0
       \/ ocall.op = "add_port" /\ ocall.external_port = 0

\* C10 (as claimed): add_port and add_any_port with local port 0 return
\* InternalPortZeroInvalid, add_port with external port 0 returns
\* ExternalPortZeroInvalid, and no SOAP request is sent.
C10_EachZeroPortHasItsError ==
    /\ (opc # "idle" /\ ocall.op \in {"add_port", "add_any_port"} /\ ocall.local_port = 0)
            => (oresult = OpErr("InternalPortZeroInvalid") /\ requests = 0)
    /\ (opc # "idle" /\ ocall.op = "add_port" /\ ocall.external_port = 0)
            => (oresult = OpErr("ExternalPortZeroInvalid") /\ requests = 0)

\* C10 (amended): a call of add_port or add_any_port with local port 0, or of
\* add_port with external port 0, has returned an error without sending a
\* SOAP request: InternalPortZeroInvalid when only the local port is 0,
\* ExternalPortZeroInvalid when only the external port is 0, and one of the
\* two when add_port is called with both ports 0.
C10_ZeroPortsRejectedLocally ==
    ZeroPortCall =>
        /\ opc = "done"
        /\ requests = 0
        /\ response = NoResponse
        /\ oresult \in {OpErr("InternalPortZeroInvalid"), OpErr("ExternalPortZeroInvalid")}
        /\ (ocall.op = "add_any_port" \/ ocall.external_port # 0)
                => oresult = OpErr("InternalPortZeroInvalid")
        /\ ocall.local_port # 0 => oresult = OpErr("ExternalPortZeroInvalid")

\* add_port was called with external port 0 and a local port that is not 0
C10_Witness ==
    /\ opc = "done"
    /\ ocall.op = "add_port"
    /\ ocall.external_port = 0
    /\ ocall.local_port = 80
    /\ requests = 0
    /\ oresult = OpErr("ExternalPortZeroInvalid")

\* C11: every external port add_any_port puts into a mapping request lies in
\* 1..65534: never 0 and never 65535, whatever the random draw gives.
C11_DrawnPortInRange ==
    (ocall.op = "add_any_port" /\ requests > 0) =>
        /\ ocall.external_port >= 1
        /\ ocall.external_port <= 65534

\* add_any_port has sent a request for the highest port of the range
C11_Witness ==
    /\ ocall.op = "add_any_port"
    /\ requests = 1
    /\ ocall.external_port = 65534

C14_OneAttemptInOrder ==
    /\ [](/\ sent <= 1
          /\ gets <= 1
          /\ sent = 1 => sock # "none"
          /\ reply # NoDatagram => sent = 1
          /\ location # NoLocation => reply.kind = "text"
          /\ gets = 1 => (location.kind = "Some" /\ UriParses(location))
          /\ body # NoBody => gets = 1
          /\ (inner.kind = "Err" /\ reply.kind # "text") => (location = NoLocation /\ gets = 0)
          /\ (inner.kind = "Err" /\ location.kind # "Some") => (gets = 0 /\ body = NoBody)
          /\ sresult.kind = "Ok" =>
                /\ sent = 1
                /\ reply.kind = "text"
                /\ location.kind = "Some"
                /\ gets = 1
                /\ body.kind = "body"
                /\ parse_control_url(body.events).kind = "Ok"
                /\ sresult.gw = Gateway(location.ip, location.port, parse_control_url(body.events).val))
    /\ [][/\ spc = "done" => UNCHANGED searchVars
          /\ spc' # spc => <<spc, spc'>> \in {<<"idle", "bind">>, <<"bind", "send">>, <<"send", "recv">>,
                                               <<"recv", "fetch">>, <<"bind", "done">>, <<"send", "done">>,
                                               <<"recv", "done">>, <<"fetch", "done">>}
          /\ sent' # sent => spc = "send"
          /\ reply' # reply => spc = "recv"
          /\ gets' # gets => spc = "recv"
          /\ body' # body => spc = "fetch"]_vars

\* a call returned the Gateway of the reply's Location and the document's URL
C14_Witness ==
    /\ spc = "done"
    /\ sresult = Found(Gateway(<<192, 168, 1, 254>>, 5000, "/a"))
    /\ sent = 1
    /\ gets = 1

(***************************************************************************)
(* SpecConc: calls of the control operations that run at the same time on  *)
(* one Gateway value.  Every method of gateway.rs 18-71 takes &self,       *)
(* builds its own reactor (Core::new) and its own asynchronous gateway     *)
(* from copies of addr and control_url; send_async, soap.rs 44-65, builds  *)
(* its own Client and Request.                                             *)
(***************************************************************************)
ConcCalls ==
    { [NoCall EXCEPT !.op = "get_external_ip"],
      [NoCall EXCEPT !.op = "remove_port", !.protocol = "TCP", !.external_port = 8080],
      [op |-> "add_port", protocol |-> "TCP", external_port |-> 8080, local_port |-> 80, lease_duration |-> 0],
      [op |-> "add_port", protocol |-> "TCP", external_port |-> 0, local_port |-> 80, lease_duration |-> 0],
      [op |-> "add_any_port", protocol |-> "UDP", external_port |-> 0, local_port |-> 80, lease_duration |-> 0] }

ConcResponses ==
    {r \in Responses :
        \/ r.kind = "fault" /\ r.code \in {401, 714} /\ r.desc = "Conflict"
        \/ r.kind = "success" /\ r.value # ""
        \/ r.kind = "transport" /\ r.value = "IoError"}

\* the call i as it is after its local checks: returned, or its request sent
\* through a Client of its own
Started(i, c) ==
    IF LocalErrors(c) # {}
    THEN {[IdleTask EXCEPT !.pc = "done", !.call = c, !.core = conns + 1, !.result = OpErr(e)] :
            e \in LocalErrors(c)}
    ELSE {[IdleTask EXCEPT !.pc = "sent", !.call = [c EXCEPT !.external_port = p], !.core = conns + 1,
                           !.request = [addr |-> gw.addr, control_url |-> gw.control_url, op |-> c.op,
                                        external_port |-> p, client |-> conns + 2]] :
            p \in IF c.op = "add_any_port" THEN {q \in RandomPorts : q \in {1, 65534}}
                                            ELSE {c.external_port}}

\* a call of a method of Gateway: Core::new, AsyncGateway::new and the start
\* of core.run
OpStart(i) ==
    /\ tasks[i].pc = "idle"
    /\ \E c \in ConcCalls : \E t \in Started(i, c) : tasks' = [tasks EXCEPT ![i] = t]
    /\ conns' = conns + 2
    /\ UNCHANGED <<gw, xmlVars, locVars, searchVars, opsVars, soapVars>>

\* a completion that takes the answer last received by any call
OpFinishShared(i) ==
    /\ tasks[i].pc = "sent"
    /\ \E r \in ConcResponses :
        LET seen == {tasks[j].response : j \in CallIds \ {i}} \ {NoResponse}
            used == IF seen = {} THEN r ELSE CHOOSE x \in seen : TRUE
        IN tasks' = [tasks EXCEPT ![i] = [@ EXCEPT !.pc = "done", !.response = r,
                                                   !.result = Decode(tasks[i].call, used)]]
    /\ UNCHANGED <<gw, conns, xmlVars, locVars, searchVars, opsVars, soapVars>>

\* the request of call i completes and its core.run returns
OpFinish(i) ==
    /\ tasks[i].pc = "sent"
    /\ \E r \in ConcResponses :
        tasks' = [tasks EXCEPT ![i] = [@ EXCEPT !.pc = "done", !.response = r,
                                                 !.result = Decode(tasks[i].call, r)]]
    /\ UNCHANGED <<gw, conns, xmlVars, locVars, searchVars, opsVars, soapVars>>

ConcInit ==
    /\ ConcIdle
    /\ XmlIdle
    /\ LocIdle
    /\ SearchIdle
    /\ OpsIdle
    /\ SoapIdle

ConcNext ==
    \/ \E i \in CallIds : OpStart(i)
    \/ \E i \in CallIds : OpFinish(i)

SpecConc == ConcInit /\ [][ConcNext]_vars

\* the reactors and clients of the calls
Handles(i) == {tasks[i].core, tasks[i].request.client} \ {0}

\* C15: calls that run at the same time on one Gateway are independent:
\* every call has a reactor and a client no other call has, its request is
\* made of its own arguments and of the Gateway's addr and control_url, its
\* result is the result of its own local checks or of its own response, a
\* step of one call changes nothing of another call, and the Gateway value
\* never changes.
C15_CallsAreIndependent ==
    /\ [](/\ gw = TheGateway
          /\ \A i \in CallIds : \A j \in CallIds \ {i} : Handles(i) \cap Handles(j) = {}
          /\ \A i \in CallIds :
                /\ tasks[i].pc # "idle" => tasks[i].core # 0
                /\ tasks[i].request # NoRequest =>
                        /\ tasks[i].request.client # 0
                        /\ tasks[i].request.op = tasks[i].call.op
                        /\ tasks[i].request.external_port = tasks[i].call.external_port
                        /\ tasks[i].request.addr = TheGateway.addr
                        /\ tasks[i].request.control_url = TheGateway.control_url
                /\ (tasks[i].pc = "done" /\ tasks[i].request # NoRequest) =>
                        tasks[i].result = Decode(tasks[i].call, tasks[i].response)
                /\ (tasks[i].pc = "done" /\ tasks[i].request = NoRequest) =>
                        tasks[i].result \in {OpErr(e) : e \in LocalErrors(tasks[i].call)})
    /\ [][\A i \in CallIds : tasks'[i] # tasks[i] => \A j \in CallIds \ {i} : tasks'[j] = tasks[j]]_vars

\* two calls of get_external_ip overlapped, the first was refused with 401
\* after the second had got its address
C15_Witness ==
    /\ tasks[1].pc = "done"
    /\ tasks[2].pc = "done"
    /\ tasks[1].call.op = "get_external_ip"
    /\ tasks[2].call.op = "get_external_ip"
    /\ tasks[1].core > tasks[2].core
    /\ tasks[2].result = OpOk("203.0.113.7", 0)
    /\ tasks[1].result = OpErr("ActionNotAuthorized")

\* C16: while parse_control_url consumes a well-formed event stream, the path
\* stack holds the names of the open elements, so its length is the nesting
\* depth, and right after a start tag whose path ends in
\* device/serviceList/service both scratch accumulators are empty.
C16_StackIsDepthAndServiceStartsEmpty ==
    WellFormed(doc) =>
        /\ Len(chain) = Len(TreeAt(doc, pos))
        /\ \A k \in 1..Len(chain) : chain[k] = TreeAt(doc, pos)[k].name
        /\ (pos > 0 /\ doc[pos].t = "StartElement"
                /\ TailIs(chain, <<"device", "serviceList", "service">>)) =>
                    (service.service_type = "" /\ service.control_url = "")

\* a second service has just opened after text of the first was collected
C16_Witness ==
    /\ WellFormed(doc)
    /\ pos > 0
    /\ doc[pos] = StartEv("service")
    /\ TailIs(chain, <<"device", "serviceList", "service">>)
    /\ Len(chain) = Len(TreeAt(doc, pos))
    /\ \E k \in 1..(pos - 1) : doc[k].t = "Characters" /\ doc[k].v # ""
    /\ service = EmptyService

\* the position of the first error the reader reports in d
FirstError(d) == Min({k \in 1..Len(d) : d[k].t = "Error"})

\* C17 (as claimed): when the reader reports a syntax error before a matching
\* service has closed, parse_control_url returns XmlError; when a matching
\* service closes before the error, it returns the URL of the first such
\* service at its end tag and never reads the error.
C17_ErrorUnlessMatchedBefore ==
    (Done /\ ~WellFormed(doc)) =>
        LET before == {k \in MatchEnds(doc) : k < FirstError(doc)} IN
        IF before = {}
        THEN xresult = Err("XmlError") /\ pos = FirstError(doc)
        ELSE xresult = Ok(ClosedService(doc, Min(before)).cu) /\ pos = Min(before)

\* the line holds a Location header of the form http://<ipv4>:<port><path>
\* with four octets of at most 255 and a port of at most 65535
HasLocation(line) ==
    /\ Captures(line).ok
    /\ ParseIpv4(Captures(line).addr).ok
    /\ ParseU16(Captures(line).port).ok

\* C18 (as claimed): parse_result returns the location of the first line that
\* holds a Location header of the form http://<ipv4>:<port><path>, whatever
\* the later lines hold, and None when no line holds one.
C18_FirstLocationLineWins ==
    lresult # Pending =>
        LET ls == Lines(text)
            m == {k \in 1..Len(ls) : HasLocation(ls[k])}
        IN  IF m = {} THEN lresult = NoLocation
            ELSE LET cap == Captures(ls[Min(m)])
                 IN  lresult = SomeLocation(ParseIpv4(cap.addr).val, ParseU16(cap.port).val, cap.path)

(***************************************************************************)
(* SpecSoap: send_async, soap.rs 44-65, and the conversion of its error to *)
(* RequestError, errors.rs 136-145.  The url is parsed first; the request  *)
(* is built and handed to a new Client; the body is collected whatever the *)
(* status of the response is and decoded as UTF-8.                         *)
(***************************************************************************)
SoapOk(b) == [kind |-> "Ok", val |-> b]
SoapErr(e) == [kind |-> "Err", val |-> e]

\* the variants of soap::Error, soap.rs 13-18
SoapErrors == {"HttpError", "IoError", "InvalidUri", "Utf8Error"}

\* the urls send_async is called with: addr, then a control URL as the
\* description document gave it
SoapUrls ==
    {[ip |-> <<192, 168, 1, 254>>, port |-> 5000, path |-> pa] :
        pa \in {<<"/", "c", "t", "l">>, <<"/">>, <<"/", "u", "/", "c">>, <<"/", "c", " ", "t">>, <<"/", "\t">>}}

\* what the HTTP exchange ends with: a response with a status and a body
\* that is UTF-8 or not, or a failure of the connection or of the protocol
HttpAnswers ==
    {[kind |-> "response", status |-> st, utf8 |-> u, body |-> b] :
        st \in {200, 204, 404, 500, 503}, u \in BOOLEAN,
        b \in {"<s:Envelope>ok</s:Envelope>", "<s:Fault>714</s:Fault>", ""}}
    \cup {[kind |-> "failure", status |-> 0, utf8 |-> TRUE, body |-> d] :
            d \in {"connection refused", "connection reset", "bad response"}}

\* a future that takes every status but 200 for an HTTP error
ResolveOnly200(a) ==
    IF a.kind = "failure" \/ a.status # 200 THEN SoapErr("HttpError")
    ELSE IF ~a.utf8 THEN SoapErr("Utf8Error")
    ELSE SoapOk(a.body)

\* soap.rs 59-63: request, concat2, map_err, String::from_utf8
Resolve(a) ==
    IF a.kind = "failure" THEN SoapErr("HttpError")
    ELSE IF ~a.utf8 THEN SoapErr("Utf8Error")
    ELSE SoapOk(a.body)

\* a conversion that reports an invalid URI as an HTTP error
FromSoapErrorUriAsHttp(e) == IF e = "InvalidUri" THEN "HttpError" ELSE e

\* impl From<soap::Error> for RequestError, errors.rs 136-145
FromSoapError(e) ==
    CASE e = "HttpError" -> "HttpError"
      [] e = "IoError" -> "IoError"
      [] e = "InvalidUri" -> "InvalidUri"
      [] e = "Utf8Error" -> "Utf8Error"

SoapInit ==
    /\ SoapIdle
    /\ XmlIdle
    /\ LocIdle
    /\ SearchIdle
    /\ OpsIdle
    /\ ConcIdle

\* soap.rs 45-57: url.parse(), and the request handed to the client
SendAsync ==
    /\ sst = "idle"
    /\ \E u \in SoapUrls :
        /\ surl' = u
        /\ IF UriParses(u)
           THEN /\ posts' = posts + 1
                /\ sst' = "sent"
                /\ soapres' = soapres
           ELSE /\ soapres' = SoapErr("InvalidUri")
                /\ sst' = "done"
                /\ posts' = posts
    /\ UNCHANGED <<sanswer, rqerr, xmlVars, locVars, searchVars, opsVars, concVars>>

\* soap.rs 59-63: the exchange ends and the future resolves
HttpExchange ==
    /\ sst = "sent"
    /\ \E a \in HttpAnswers :
        /\ sanswer' = a
        /\ soapres' = Resolve(a)
    /\ sst' = "done"
    /\ UNCHANGED <<surl, posts, rqerr, xmlVars, locVars, searchVars, opsVars, concVars>>

\* the caller converts the error with RequestError::from
IntoRequestError ==
    /\ sst = "done"
    /\ soapres.kind = "Err"
    /\ rqerr = ""
    /\ rqerr' = FromSoapError(soapres.val)
    /\ UNCHANGED <<sst, surl, sanswer, posts, soapres, xmlVars, locVars, searchVars, opsVars, concVars>>

SoapNext ==
    \/ SendAsync
    \/ HttpExchange
    \/ IntoRequestError

SpecSoap == SoapInit /\ [][SoapNext]_vars

\* send_async next to a discovery call, whose get_control_url parses the
\* location the same way
UriNext ==
    \/ SoapNext
    \/ SearchNext

SpecUri == SoapInit /\ [][UriNext]_vars

\* C19: send_async resolves to Ok(body) for every status the gateway answers
\* with, 500 with a SOAP fault included; it fails only when the url is no
\* URI, when the exchange itself failed, or when the body is not UTF-8.
C19_AnyStatusIsOk ==
    sst = "done" =>
        /\ (sanswer.kind = "response" /\ sanswer.utf8) => soapres = SoapOk(sanswer.body)
        /\ soapres.kind = "Err" =>
                \/ ~UriParses(surl) /\ soapres.val = "InvalidUri"
                \/ sanswer.kind = "failure" /\ soapres.val = "HttpError"
                \/ sanswer.kind = "response" /\ ~sanswer.utf8 /\ soapres.val = "Utf8Error"

\* the gateway answered 500 with a fault body and send_async gave the body
C19_Witness ==
    /\ sst = "done"
    /\ sanswer.kind = "response"
    /\ sanswer.status = 500
    /\ posts = 1
    /\ soapres = SoapOk("<s:Fault>714</s:Fault>")

\* C20: a url that is no URI makes send_async fail with InvalidUri, and a
\* location that is no URI makes get_control_url fail with InvalidUri, in
\* both cases without an HTTP request; converted to RequestError each of
\* HttpError, IoError, InvalidUri and Utf8Error is the variant of the same
\* name.
C20_InvalidUriSendsNothing ==
    /\ (sst # "idle" /\ ~UriParses(surl)) =>
            /\ sst = "done"
            /\ soapres = SoapErr("InvalidUri")
            /\ posts = 0
            /\ sanswer = NoAnswer
    /\ (location.kind = "Some" /\ ~UriParses(location)) =>
            /\ spc = "done"
            /\ inner = Failed("InvalidUri")
            /\ gets = 0
            /\ body = NoBody
    /\ rqerr # "" => rqerr = soapres.val
    /\ \A e \in SoapErrors : FromSoapError(e) = e

\* both have met a url with a blank in it: send_async, whose error was
\* converted, and get_control_url
C20_Witness ==
    /\ sst = "done"
    /\ ~UriParses(surl)
    /\ posts = 0
    /\ rqerr = "InvalidUri"
    /\ location.kind = "Some"
    /\ ~UriParses(location)
    /\ inner = Failed("InvalidUri")
    /\ gets = 0

(***************************************************************************)
(* The release of the discovery future.  The value returned by             *)
(* search_gateway_from_timeout owns the chain, and the chain owns the      *)
(* socket from bind until the closure of search.rs 60 has taken it         *)
(* (_sock) and let it go.  The caller lets go of the future after it has   *)
(* resolved, or before, which abandons the call.                           *)
(***************************************************************************)

\* a release that leaves the socket behind, as if something outside the
\* future had a handle on it
DropFutureLeaks ==
    /\ spc \in {"bind", "send", "recv", "fetch", "done"}
    /\ spc' = "dropped"
    /\ UNCHANGED <<timeout, now, sock, sent, reply, location, body, gets, inner, sresult, xmlVars, locVars, opsVars, concVars, soapVars>>

\* the future is dropped, and with it all the chain still owns
DropFuture ==
    /\ spc \in {"bind", "send", "recv", "fetch", "done"}
    /\ spc' = "dropped"
    /\ sock' = IF sock = "open" THEN "closed" ELSE sock
    /\ UNCHANGED <<timeout, now, sent, reply, location, body, gets, inner, sresult, xmlVars, locVars, opsVars, concVars, soapVars>>

CancelNext ==
    \/ SearchNext
    \/ DropFuture

SpecCancel == SearchInit /\ [][CancelNext]_vars

\* C21 (as claimed): once a discovery call has ended, with a Gateway, with an
\* error, by its timeout or abandoned by the caller, the UDP socket it bound
\* is closed, and the socket is not open during the description fetch.
C21_SocketClosedWhenCallEnds ==
    /\ spc \in {"done", "dropped"} => sock # "open"
    /\ spc = "fetch" => sock # "open"

\* C21 (amended): the socket is closed before the description fetch begins
\* and whenever the call ends with a Gateway or with an error of the chain;
\* a call ended by its timeout is the only finished call whose socket can
\* still be open; once the future is dropped, finished or abandoned, the
\* socket is closed.
C21_SocketClosedOnceReleased ==
    /\ spc = "dropped" => sock # "open"
    /\ spc = "fetch" => sock = "closed"
    /\ (spc = "done" /\ sock = "open") => (sresult = TimedOut /\ inner = NoResult)
    /\ (spc = "done" /\ inner # NoResult) => sock # "open"

\* a call that waited for the reply was abandoned and its socket is closed
C21_Witness ==
    /\ spc = "dropped"
    /\ sresult = NoResult
    /\ sent = 1
    /\ reply = NoDatagram
    /\ sock = "closed"

====
